---- MODULE Spec2Model ----
(***************************************************************************)
(* A model of lwan's hash table (src/lib/hash.c): 512 growable buckets of  *)
(* (key, value, cached hash) entries, a randomised odd seed for the hash   *)
(* functions, caller-supplied release callbacks and a forward iterator.    *)
(*                                                                         *)
(* The source fixes N_BUCKETS = 512, STEPS = 64 and counts with a 32-bit   *)
(* unsigned.  The model keeps the code's arithmetic but scales these three *)
(* numbers down (N_BUCKETS, STEPS, UINT_MAX below) so that bucket growth,  *)
(* shrinking and capacity overflow happen with a handful of keys.  Hash    *)
(* values keep their full 32 bits: a 32-bit word is a pair <<hi, lo>> of   *)
(* 16-bit halves.                                                          *)
(***************************************************************************)
EXTENDS Integers, Sequences, FiniteSets, TLC

\* ---------------------------------------------------------------- bounds
\* Number of top-level buckets (512 in the source, scaled).
N_BUCKETS == 2
\* Growth step of a bucket's capacity (64 in the source, scaled).
STEPS == 2
\* Largest value of the `unsigned` counters used/total/count (scaled).
UINT_MAX == 5
\* Integer keys 0..MaxKey are offered to an integer table.
MaxKey == 2
\* Value references 0..MaxValue are offered; 0 is the NULL pointer.
MaxValue == 1
\* Strings of 0..MaxStrLen characters are hashed on their own.
MaxStrLen == 9

\* ------------------------------------------------- 32-bit word arithmetic
\* The operations are functions, so that TLC computes an argument once.
\* 2^16: a 32-bit word w is <<w \div Half, w % Half>>.
Half == 2 ^ 16

Word == (0..(Half - 1)) \X (0..(Half - 1))

\* a ^ b on naturals
XorBits[a \in Nat, b \in Nat] ==
    IF a = 0 THEN b
    ELSE IF b = 0 THEN a
    ELSE ((a + b) % 2) + 2 * XorBits[a \div 2, b \div 2]

\* a & b on naturals
AndBits[a \in Nat, b \in Nat] ==
    IF a = 0 \/ b = 0 THEN 0
    ELSE ((a % 2) * (b % 2)) + 2 * AndBits[a \div 2, b \div 2]

\* a ^ b on 32-bit words
Xor32[a \in Word, b \in Word] ==
    <<XorBits[a[1], b[1]], XorBits[a[2], b[2]]>>

\* a >> n on a 32-bit word
Shr32[a \in Word, n \in 1..16] ==
    IF n = 16 THEN <<0, a[1]>>
    ELSE <<a[1] \div (2 ^ n),
           (a[2] \div (2 ^ n)) + (a[1] % (2 ^ n)) * (2 ^ (16 - n))>>

\* a << n on a 32-bit word (the bits shifted out are lost)
Shl32[a \in Word, n \in 1..15] ==
    <<((a[1] * (2 ^ n)) + (a[2] \div (2 ^ (16 - n)))) % Half,
      (a[2] * (2 ^ n)) % Half>>

\* a + b modulo 2^32
Add32[a \in Word, b \in Word] ==
    <<(a[1] + b[1] + ((a[2] + b[2]) \div Half)) % Half,
      (a[2] + b[2]) % Half>>

\* The bytes of a word, the least significant one first.
Bytes[w \in Word] ==
    <<w[2] % 256, w[2] \div 256, w[1] % 256, w[1] \div 256>>

\* The columns of the long multiplication of two words by bytes, each with
\* the carry of the one before: no partial product leaves TLC's integers.
MulColumn[a \in Seq(0..255), b \in Seq(0..255), i \in 1..4, carry \in Nat] ==
    LET col == IF i = 1 THEN a[1] * b[1]
               ELSE IF i = 2 THEN a[1] * b[2] + a[2] * b[1]
               ELSE IF i = 3 THEN a[1] * b[3] + a[2] * b[2] + a[3] * b[1]
               ELSE a[1] * b[4] + a[2] * b[3] + a[3] * b[2] + a[4] * b[1]
    IN  col + carry

\* a * b modulo 2^32
Mul32[a \in Word, b \in Word] ==
    LET x == Bytes[a]
        y == Bytes[b]
        c1 == MulColumn[x, y, 1, 0]
        c2 == MulColumn[x, y, 2, c1 \div 256]
        c3 == MulColumn[x, y, 3, c2 \div 256]
        c4 == MulColumn[x, y, 4, c3 \div 256]
    IN  <<(c3 % 256) + 256 * (c4 % 256), (c1 % 256) + 256 * (c2 % 256)>>

\* ------------------------------------------------------------ references
\* The NULL pointer as a value reference.
NULL == 0

\* A key is a machine word <<high 32 bits, low 32 bits>>: the integer itself
\* in an integer table, the address of a string in a string table.
NULLKEY == <<0, 0>>

\* Integer keys offered by the callers of the model: the small integers and
\* one key that differs from key 1 only above bit 31.
IntKeys == {<<0, k>> : k \in 0..MaxKey} \cup {<<1, 1>>}

\* The strings the callers keep alive, by address: StrMem[p] is the bytes of
\* the string at address <<0, p>>, without its terminating NUL.
StrMem == <<(<<97>>), (<<97>>), (<<98>>), (<< >>)>>

StrKeys == {<<0, p>> : p \in 1..Len(StrMem)}

Values == 0..MaxValue

\* ------------------------------------------------------- hash functions
DEFAULT_ODD_CONSTANT == <<10196, 60205>>

\* What the kernel or an entropy device may deliver in the model: an odd
\* and an even value.
RandomValues == {DEFAULT_ODD_CONSTANT, <<10196, 60204>>}

\* What the system does at the calls of get_random_unsigned(): whether
\* getrandom fills the value, whether each device can be opened, whether the
\* read delivers a full value, and the value delivered.
Environments ==
    [getrandom : BOOLEAN, urandom : BOOLEAN, random : BOOLEAN,
     read : BOOLEAN, value : RandomValues]

\* A system call get_random_unsigned() made, and whether it succeeded.
Sys(call, path, ok) == [sys |-> call, path |-> path, ok |-> ok]

\* get_random_unsigned(): the value returned, where it comes from and the
\* system calls made, in order.
get_random_unsigned(env) ==
    IF env.getrandom
    THEN [value |-> env.value, from |-> "getrandom",
          tried |-> <<Sys("getrandom", "", TRUE)>>]
    ELSE IF ~env.urandom /\ ~env.random
    THEN [value |-> DEFAULT_ODD_CONSTANT, from |-> "default",
          tried |-> <<Sys("getrandom", "", FALSE),
                      Sys("open", "/dev/urandom", FALSE),
                      Sys("open", "/dev/random", FALSE)>>]
    ELSE LET opens == IF env.urandom
                      THEN <<Sys("open", "/dev/urandom", TRUE)>>
                      ELSE <<Sys("open", "/dev/urandom", FALSE),
                             Sys("open", "/dev/random", TRUE)>>
             path == IF env.urandom THEN "/dev/urandom" ELSE "/dev/random"
         IN  [value |-> IF env.read THEN env.value
                        ELSE DEFAULT_ODD_CONSTANT,
              from |-> IF env.read THEN path ELSE "default",
              tried |-> <<Sys("getrandom", "", FALSE)>> \o opens
                            \o <<Sys("read", path, env.read)>>]

\* get_random_unsigned() | 1
OddOf(v) == <<v[1], v[2] + (1 - (v[2] % 2))>>

\* A key as the code takes it: a pointer, <<high 32 bits, low 32 bits>>.
Pointer == Nat \X Nat

\* (unsigned int)(long)keyptr
Truncate[keyptr \in Pointer] == <<keyptr[2] \div Half, keyptr[2] % Half>>

\* key = (key ^ 61) ^ (key >> 16); key += key << 3; key ^= key >> 4;
ShiftMix[key \in Word] ==
    LET k1 == Xor32[Xor32[key, <<0, 61>>], Shr32[key, 16]]
        k2 == Add32[k1, Shl32[k1, 3]]
    IN  Xor32[k2, Shr32[k2, 4]]

\* key ^= key >> 15
ShiftFinal[key \in Word] == Xor32[key, Shr32[key, 15]]

hash_int_shift_mult[keyptr \in Pointer, c2 \in Word] ==
    ShiftFinal[Mul32[ShiftMix[Truncate[keyptr]], c2]]

\* The CRC32 instruction, bit by bit: n steps of the shift register.
Crc32Shift[h \in Word, n \in 0..8] ==
    IF n = 0 THEN h
    ELSE IF h[2] % 2 = 1
    THEN Crc32Shift[Xor32[Shr32[h, 1], <<33526, 15224>>], n - 1]
    ELSE Crc32Shift[Shr32[h, 1], n - 1]

\* __builtin_ia32_crc32qi(h, byte)
crc32qi[h \in Word, byte \in 0..255] == Crc32Shift[Xor32[h, <<0, byte>>], 8]

\* The wider forms of the instruction fold the bytes of their operand from
\* the least significant one on (the operand is read from memory on a
\* little-endian machine, so in the order of the bytes of the string).
crc32bytes[h \in Word, bytes \in Seq(0..255)] ==
    IF bytes = << >> THEN h
    ELSE crc32bytes[crc32qi[h, Head(bytes)], Tail(bytes)]

\* The bytes at a string address, with the terminating NUL.
CString(keyptr) == StrMem[keyptr[2]] \o <<0>>

\* strlen()
strlen[bytes \in Seq(0..255)] ==
    IF Head(bytes) = 0 THEN 0 ELSE 1 + strlen[Tail(bytes)]

\* The loops of hash_str_crc32 that fold w bytes at a time while at least w
\* of the n bytes left of the string are left; yields <<hash, key, len>>,
\* key the position of the first byte not folded.
crc32_words[h \in Word, mem \in Seq(0..255), k \in Nat, n \in Nat, w \in {4, 8}] ==
    IF n >= w
    THEN crc32_words[crc32bytes[h, SubSeq(mem, k, k + w - 1)],
                     mem, k + w, n - w, w]
    ELSE <<h, k, n>>

\* The tail of hash_str_crc32: two bytes if neither is NUL, then one byte,
\* the last character or the terminating NUL.
crc32_tail[hash \in Word, mem \in Seq(0..255), key \in Nat] ==
    IF mem[key] # 0 /\ mem[key + 1] # 0
    THEN crc32qi[crc32bytes[hash, SubSeq(mem, key, key + 1)], mem[key + 2]]
    ELSE crc32qi[hash, mem[key]]

\* A fold of the characters of the string alone, one by one.
crc32_characters(mem, seed) == crc32bytes[seed, SubSeq(mem, 1, strlen[mem])]

\* The body of hash_str_crc32 on the memory `mem` that its key points at,
\* with odd_constant = seed.
crc32_string(mem, seed) ==
    LET w8 == crc32_words[seed, mem, 1, strlen[mem], 8]
        w4 == crc32_words[w8[1], mem, w8[2], w8[3], 4]
    IN  crc32_tail[w4[1], mem, w4[2]]

hash_str_crc32[keyptr \in Pointer, seed \in Word] ==
    crc32_string(CString(keyptr), seed)

hash_int_crc32[keyptr \in Pointer, seed \in Word] ==
    crc32bytes[seed, Bytes[Truncate[keyptr]]]

\* A call through the function pointer hash->hash_value.
HashCall(fn, keyptr, seed) ==
    CASE fn = "hash_int_shift_mult" -> hash_int_shift_mult[keyptr, seed]
      [] fn = "hash_int_crc32" -> hash_int_crc32[keyptr, seed]
      [] fn = "hash_str_crc32" -> hash_str_crc32[keyptr, seed]

\* ------------------------------------------------------ key comparison
\* hash_int_key_cmp: (a > b) - (a < b) on the signed words.
hash_int_key_cmp(k1, k2) ==
    IF k1 = k2 THEN 0
    ELSE IF k1[1] > k2[1] \/ (k1[1] = k2[1] /\ k1[2] > k2[2]) THEN 1
    ELSE -1

\* strcmp on two NUL-terminated byte sequences: the sign of the difference
\* of the first bytes that differ.
RECURSIVE strcmp_bytes(_, _)
strcmp_bytes(a, b) ==
    IF Head(a) # Head(b) THEN (IF Head(a) > Head(b) THEN 1 ELSE -1)
    ELSE IF Head(a) = 0 THEN 0
    ELSE strcmp_bytes(Tail(a), Tail(b))

strcmp(k1, k2) == strcmp_bytes(CString(k1), CString(k2))

\* A call through the function pointer hash->key_compare.
CompareCall(fn, k1, k2) ==
    IF fn = "hash_int_key_cmp" THEN hash_int_key_cmp(k1, k2)
    ELSE strcmp(k1, k2)


\* A string of n bytes b.
Repeat(b, n) == [i \in 1..n |-> b]

\* Strings of up to MaxStrLen characters.
Texts ==
    {Repeat(97, p[1]) \o Repeat(98, p[2]) :
        p \in {q \in (0..MaxStrLen) \X (0..MaxStrLen) :
                  q[1] + q[2] <= MaxStrLen}}

\* A string in memory: its characters, the terminating NUL, and the byte
\* that happens to follow it.
TextMemory == {t \o <<0, after>> : t \in Texts, after \in {0, 255}}

\* Memory with the empty string in it.
NoText == <<0, 0>>

\* ------------------------------------------------------------------ state
VARIABLES
    odd_constant,   \* static unsigned odd_constant
    hash_str,       \* static function pointer hash_str
    hash_int,       \* static function pointer hash_int
    alive,          \* TRUE while the table exists (hash_*_new .. hash_free)
    hash_value,     \* hash->hash_value
    key_compare,    \* hash->key_compare
    count,          \* hash->count
    buckets,        \* hash->buckets: [0..N_BUCKETS-1 -> bucket]
    iter,           \* the caller's struct hash_iter
    last,           \* the last call: its arguments, result and callbacks
    expect,         \* what the callers were told: key -> value or Absent
    text,           \* memory holding a string that a caller has hashed
    walk            \* what the walk since hash_iter_init has yielded

vars == <<odd_constant, hash_str, hash_int, alive, hash_value, key_compare,
          count, buckets, iter, last, expect, text, walk>>

process_vars == <<odd_constant, hash_str, hash_int, text>>
table_vars == <<alive, hash_value, key_compare, count, buckets>>

\* ---------------------------------------------------------------- layout
\* The content of a slot of a bucket's storage that holds no entry:
\* storage from reallocarray is not initialised.
Junk == [key |-> <<-1, -1>>, value |-> -1, hashval |-> <<-1, -1>>]

\* A bucket of a table fresh from calloc.
EmptyBucket == [entries |-> << >>, used |-> 0, total |-> 0]

BucketIds == 0..(N_BUCKETS - 1)

\* The keys a caller may pass to the table, by its kind.
AllKeys == IntKeys \cup StrKeys
KeysOfTable == IF key_compare = "hash_int_key_cmp" THEN IntKeys ELSE StrKeys

\* No value: the key is not in the table.
Absent == MaxValue + 1

\* The record of a call: `ret` is its status, `out` the pointer or number it
\* returns, `calls` the release callbacks it invoked (for the constructor
\* of the seed: the system calls it made), in order, and `oob` tells
\* whether it accessed memory outside the storage it was walking; `alloc`
\* is how reallocarray ended if the call came to it ("none": it did not).
NoCall == [op |-> "none", key |-> NULLKEY, value |-> NULL, ret |-> "",
           out |-> NULL, calls |-> << >>, oob |-> FALSE, alloc |-> "none"]

\* How a call of reallocarray ended.
Allocated(alloc_ok) == IF alloc_ok THEN "ok" ELSE "failed"

NoIter == [init |-> FALSE, bucket |-> 0, entry |-> -1]
NoWalk == [done |-> FALSE, yielded |-> << >>]

\* A release callback invoked with a pointer.
FreeValue(v) == [fn |-> "free_value", arg |-> <<0, v>>]
FreeKey(k) == [fn |-> "free_key", arg |-> k]

\* The hash functions on the keys and seeds of the model, computed once.
HashFunctions == {"hash_int_shift_mult", "hash_int_crc32", "hash_str_crc32"}
OddConstants == {OddOf(v) : v \in RandomValues}
HashKeys(fn) == IF fn = "hash_str_crc32" THEN StrKeys ELSE IntKeys

\* The function f restricted to S, with its values computed.
RECURSIVE Tabulate(_, _)
Tabulate(f, S) ==
    IF S = {} THEN << >>
    ELSE LET x == CHOOSE y \in S : TRUE
         IN  (x :> f[x]) @@ Tabulate(f, S \ {x})

HashTable ==
    Tabulate([fn \in HashFunctions |->
        Tabulate([seed \in OddConstants |->
            Tabulate([key \in HashKeys(fn) |-> HashCall(fn, key, seed)],
                     HashKeys(fn))],
            OddConstants)],
        HashFunctions)

\* hash->hash_value(key) and hash->key_compare(k1, k2)
hash_value_of(key) == HashTable[hash_value][odd_constant][key]
key_compare_of(k1, k2) == CompareCall(key_compare, k1, k2)

\* hashval & (N_BUCKETS - 1)
BucketOf(hashval) == AndBits[hashval[2], N_BUCKETS - 1]

\* --------------------------------------------------------- initialisation
\* initialize_odd_constant(): the seed, and the hash functions by whether
\* the CPU has SSE4.2.
initialize_odd_constant(random, sse42) ==
    /\ odd_constant = OddOf(random.value)
    /\ hash_str = IF sse42 THEN "hash_str_crc32" ELSE "murmur3_simple"
    /\ hash_int = IF sse42 THEN "hash_int_crc32" ELSE "hash_int_shift_mult"
    /\ last = [NoCall EXCEPT !.op = "initialize_odd_constant",
                             !.ret = random.from,
                             !.out = random.value,
                             !.calls = random.tried]

\* The process starts: the constructor has run, there is no table yet.
Init ==
    /\ \E env \in Environments, sse42 \in BOOLEAN :
           initialize_odd_constant(get_random_unsigned(env), sse42)
    /\ alive = FALSE
    /\ hash_value = ""
    /\ key_compare = ""
    /\ count = 0
    /\ buckets = [b \in BucketIds |-> EmptyBucket]
    /\ iter = NoIter
    /\ expect = [k \in AllKeys |-> Absent]
    /\ walk = NoWalk
    /\ text = NoText

\* The process starts with a string somewhere in its memory.
InitHash ==
    /\ \E env \in Environments, sse42 \in BOOLEAN :
           initialize_odd_constant(get_random_unsigned(env), sse42)
    /\ alive = FALSE
    /\ hash_value = ""
    /\ key_compare = ""
    /\ count = 0
    /\ buckets = [b \in BucketIds |-> EmptyBucket]
    /\ iter = NoIter
    /\ expect = [k \in AllKeys |-> Absent]
    /\ walk = NoWalk
    /\ text \in TextMemory

\* hash_str(key) with key pointing at `text`, as hash_str_new installs it.
call_hash_str ==
    /\ hash_str = "hash_str_crc32"
    /\ last' = [NoCall EXCEPT !.op = "hash_str",
                              !.out = crc32_string(text, odd_constant)]
    /\ UNCHANGED <<process_vars, table_vars, iter, expect, walk>>

\* ----------------------------------------------------------- construction
hash_internal_new(hv, cmp, calloc_ok) ==
    /\ ~alive
    /\ alive' = calloc_ok
    /\ hash_value' = IF calloc_ok THEN hv ELSE ""
    /\ key_compare' = IF calloc_ok THEN cmp ELSE ""
    /\ count' = 0
    /\ buckets' = [b \in BucketIds |-> EmptyBucket]
    /\ expect' = [k \in AllKeys |-> Absent]
    /\ iter' = NoIter
    /\ walk' = NoWalk
    /\ UNCHANGED process_vars

hash_int_new ==
    \E calloc_ok \in BOOLEAN :
        /\ hash_internal_new(hash_int, "hash_int_key_cmp", calloc_ok)
        /\ last' = [NoCall EXCEPT !.op = "hash_int_new",
                                  !.ret = IF calloc_ok THEN "0" ELSE "NULL"]

\* The portable string hash, murmur3_simple, is not part of hash.c: string
\* tables are modelled where the CRC32 string hash was selected.
hash_str_new ==
    \E calloc_ok \in BOOLEAN :
        /\ hash_str = "hash_str_crc32"
        /\ hash_internal_new(hash_str, "strcmp", calloc_ok)
        /\ last' = [NoCall EXCEPT !.op = "hash_str_new",
                                  !.ret = IF calloc_ok THEN "0" ELSE "NULL"]


\* ------------------------------------------------------------ ghost state
\* The callers' view after being told that `key` now maps to `value`
\* (Absent: to nothing): every key that compares equal is affected.
Told(key, value) ==
    [k \in AllKeys |->
        IF k \in KeysOfTable /\ key_compare_of(key, k) = 0 THEN value
        ELSE expect[k]]

\* The table must not change during a walk: a call that changes it ends the
\* walk, and the cursor is of no use until hash_iter_init is called again.
IterAfter(new_buckets, new_count) ==
    IF new_buckets = buckets /\ new_count = count THEN iter ELSE NoIter

WalkAfter(new_buckets, new_count) ==
    IF new_buckets = buckets /\ new_count = count THEN walk ELSE NoWalk

\* --------------------------------------------------------------- storage
\* reallocarray(entries, total, sizeof(struct hash_entry)), when it succeeds:
\* the storage keeps its content up to the smaller of the old and new sizes.
Resize(entries, total) ==
    [i \in 1..total |-> IF i <= Len(entries) THEN entries[i] ELSE Junk]

\* A growth step that adds without the overflow check.
add_unchecked(a, b) == FALSE

\* __builtin_add_overflow(a, b, &result) on unsigned: TRUE if a + b does not
\* fit, and the result is a + b wrapped.
add_overflow(a, b) == a + b > UINT_MAX
\* A growth by one entry instead of by STEPS.
SumOfOne(a, b) == (a + 1) % (UINT_MAX + 1)

WrappedSum(a, b) == (a + b) % (UINT_MAX + 1)

\* The two callbacks in the other order.
ReleaseKeyFirst(e) == <<FreeKey(e.key), FreeValue(e.value)>>

\* hash->free_value((void *)entry->value); hash->free_key((void *)entry->key);
Release(e) == <<FreeValue(e.value), FreeKey(e.key)>>

\* ------------------------------------------------------------ destruction
\* The callbacks hash_free invokes for the entries of one bucket.
RECURSIVE FreeEntries(_, _, _)
FreeEntries(entries, from, used) ==
    IF from > used THEN << >>
    ELSE Release(entries[from]) \o FreeEntries(entries, from + 1, used)

RECURSIVE FreeBuckets(_)
FreeBuckets(b) ==
    IF b >= N_BUCKETS THEN << >>
    ELSE FreeEntries(buckets[b].entries, 1, buckets[b].used)
         \o FreeBuckets(b + 1)

hash_free ==
    /\ alive' = FALSE
    /\ hash_value' = ""
    /\ key_compare' = ""
    /\ count' = 0
    /\ buckets' = [b \in BucketIds |-> EmptyBucket]
    /\ expect' = [k \in AllKeys |-> Absent]
    /\ iter' = NoIter
    /\ walk' = NoWalk
    /\ last' = [NoCall EXCEPT !.op = "hash_free",
                              !.calls = IF alive THEN FreeBuckets(0)
                                        ELSE << >>]
    /\ UNCHANGED process_vars

\* ---------------------------------------------------------------- adding
\* The NULL entry pointer; an entry pointer is <<bucket, slot>>, slots
\* counted from 1.
NoEntry == <<-1, 0>>

\* The slots of a bucket whose cached hash is hashval and whose key compares
\* equal to key: the loop of hash_add_entry and of hash_find_entry returns
\* the first of them.
Matches(bucket, key, hashval) ==
    {i \in 1..bucket.used :
        /\ bucket.entries[i].hashval = hashval
        /\ key_compare_of(key, bucket.entries[i].key) = 0}

First(slots) == CHOOSE i \in slots : \A j \in slots : i <= j

\* An append that forgets entry->hashval = hashval.
AppendNoHash(bucket, hashval) ==
    [bucket EXCEPT
        !.used = (bucket.used + 1) % (UINT_MAX + 1),
        !.entries = [i \in 1..Len(bucket.entries) |->
                        IF i = bucket.used + 1
                        THEN [bucket.entries[i] EXCEPT !.key = NULLKEY,
                                                       !.value = NULL]
                        ELSE bucket.entries[i]]]

\* bucket->used++; entry->hashval = hashval; entry->key = entry->value = NULL
AppendBlank(bucket, hashval) ==
    [bucket EXCEPT
        !.used = (bucket.used + 1) % (UINT_MAX + 1),
        !.entries = [i \in 1..Len(bucket.entries) |->
                        IF i = bucket.used + 1
                        THEN [key |-> NULLKEY, value |-> NULL,
                              hashval |-> hashval]
                        ELSE bucket.entries[i]]]

\* The body of hash_add_entry once the hash of the key is known.
\* `alloc_ok` is whether reallocarray succeeds, should it be called.
AddEntry(key, hashval, alloc_ok) ==
    LET pos == BucketOf(hashval)
        bucket == buckets[pos]
        grow == bucket.used + 1 >= bucket.total
        new_total == WrappedSum(bucket.total, STEPS)
        grown == IF grow
                 THEN [bucket EXCEPT
                          !.entries = Resize(bucket.entries, new_total),
                          !.total = new_total]
                 ELSE bucket
        hits == Matches(grown, key, hashval)
        alloc == IF grow THEN Allocated(alloc_ok) ELSE "none"
        fail == [entry |-> NoEntry, buckets |-> buckets, count |-> count,
                 oob |-> FALSE, errno |-> "ENOMEM", alloc |-> "failed"]
    IN  IF grow /\ add_overflow(bucket.total, STEPS)
        THEN [fail EXCEPT !.errno = "EOVERFLOW", !.alloc = "none"]
        ELSE IF grow /\ ~alloc_ok THEN fail
        ELSE IF hits # {}
        THEN [entry |-> <<pos, First(hits)>>,
              buckets |-> [buckets EXCEPT ![pos] = grown],
              count |-> count, oob |-> FALSE, errno |-> "",
              alloc |-> alloc]
        ELSE [entry |-> <<pos, grown.used + 1>>,
              buckets |-> [buckets EXCEPT
                              ![pos] = AppendBlank(grown, hashval)],
              count |-> (count + 1) % (UINT_MAX + 1),
              oob |-> grown.used + 1 > grown.total, errno |-> "",
              alloc |-> alloc]

\* hash_add_entry(hash, key): the entry of the key, made if there is none:
\* the entry pointer (NoEntry with errno if the bucket could not grow) and
\* the table as the call leaves it.
hash_add_entry(key, alloc_ok) == AddEntry(key, hash_value_of(key), alloc_ok)

\* The entry an entry pointer points at.
EntryAt(bs, entry) == bs[entry[1]].entries[entry[2]]

\* A store that forgets entry->value = value.
StoreKeyOnly(bs, entry, key, value) ==
    [bs EXCEPT ![entry[1]].entries[entry[2]] = [@ EXCEPT !.key = key]]

\* entry->key = key; entry->value = value
StoreAt(bs, entry, key, value) ==
    [bs EXCEPT ![entry[1]].entries[entry[2]] =
        [@ EXCEPT !.key = key, !.value = value]]

\* hash_add once hash_add_entry has returned r.
AddTo(r, key, value) ==
    LET ok == r.entry # NoEntry
        new_buckets == IF ok THEN StoreAt(r.buckets, r.entry, key, value)
                       ELSE r.buckets
    IN  /\ buckets' = new_buckets
        /\ count' = r.count
        /\ iter' = IterAfter(new_buckets, r.count)
        /\ walk' = WalkAfter(new_buckets, r.count)
        /\ expect' = IF ok THEN Told(key, value) ELSE expect
        /\ last' = [op |-> "hash_add", key |-> key, value |-> value,
                    ret |-> IF ok THEN "0" ELSE "-" \o r.errno,
                    out |-> NULL,
                    calls |-> IF ok THEN Release(EntryAt(r.buckets, r.entry))
                              ELSE << >>,
                    oob |-> r.oob, alloc |-> r.alloc]

hash_add(key, value, alloc_ok) ==
    /\ alive
    /\ key \in KeysOfTable
    /\ AddTo(hash_add_entry(key, alloc_ok), key, value)
    /\ UNCHANGED <<process_vars, alive, hash_value, key_compare>>

\* hash_add_unique once hash_add_entry has returned r.
AddUniqueTo(r, key, value) ==
    LET found == r.entry # NoEntry
        exists == /\ found
                  /\ \/ EntryAt(r.buckets, r.entry).key # NULLKEY
                     \/ EntryAt(r.buckets, r.entry).value # NULL
        ok == found /\ ~exists
        new_buckets == IF ok THEN StoreAt(r.buckets, r.entry, key, value)
                       ELSE r.buckets
    IN  /\ buckets' = new_buckets
        /\ count' = r.count
        /\ iter' = IterAfter(new_buckets, r.count)
        /\ walk' = WalkAfter(new_buckets, r.count)
        /\ expect' = IF ok THEN Told(key, value) ELSE expect
        /\ last' = [op |-> "hash_add_unique", key |-> key, value |-> value,
                    ret |-> IF ok THEN "0"
                            ELSE IF exists THEN "-EEXIST"
                            ELSE "-" \o r.errno,
                    out |-> NULL, calls |-> << >>, oob |-> r.oob,
                    alloc |-> r.alloc]

hash_add_unique(key, value, alloc_ok) ==
    /\ alive
    /\ key \in KeysOfTable
    /\ AddUniqueTo(hash_add_entry(key, alloc_ok), key, value)
    /\ UNCHANGED <<process_vars, alive, hash_value, key_compare>>

\* --------------------------------------------------------------- finding
\* A lookup that trusts the cached hash and skips key_compare.
find_entry_by_hash(key, hashval) ==
    LET bucket == buckets[BucketOf(hashval)]
        hits == {i \in 1..bucket.used : bucket.entries[i].hashval = hashval}
    IN  IF hits = {} THEN 0 ELSE First(hits)

\* hash_find_entry(hash, key, hashval): the slot of the key in its bucket,
\* 0 (NULL) if there is none.
hash_find_entry(key, hashval) ==
    LET hits == Matches(buckets[BucketOf(hashval)], key, hashval)
    IN  IF hits = {} THEN 0 ELSE First(hits)

\* The value hash_find returns for the entry at `slot` (0: none) of the
\* bucket of hashval.
ValueAt(hashval, slot) ==
    IF slot # 0 THEN buckets[BucketOf(hashval)].entries[slot].value
    ELSE NULL

FindIn(key, hashval) == ValueAt(hashval, hash_find_entry(key, hashval))

\* The value hash_find(hash, key) returns.
FindResult(key) == FindIn(key, hash_value_of(key))

hash_find(key) ==
    /\ alive
    /\ key \in KeysOfTable
    /\ last' = [NoCall EXCEPT !.op = "hash_find", !.key = key,
                              !.out = FindResult(key)]
    /\ UNCHANGED <<process_vars, table_vars, iter, expect, walk>>

hash_get_count ==
    /\ alive
    /\ last' = [NoCall EXCEPT !.op = "hash_get_count", !.out = count]
    /\ UNCHANGED <<process_vars, table_vars, iter, expect, walk>>

\* -------------------------------------------------------------- deleting
\* A removal that fills the hole with the last entry.
MoveLast(bucket, slot) ==
    [i \in 1..Len(bucket.entries) |->
        IF i = slot THEN bucket.entries[bucket.used] ELSE bucket.entries[i]]

\* A removal that forgets the memmove.
MoveNothing(bucket, slot) == bucket.entries

\* memmove(entry, entry + 1, (entry_end - entry) * sizeof(struct hash_entry))
\* in a bucket's storage: slot, slot + 1, ... take what follows them, up to
\* and with the slot after the last entry.
MoveDown(bucket, slot) ==
    [i \in 1..Len(bucket.entries) |->
        IF i >= slot /\ i <= bucket.used
        THEN IF i + 1 <= Len(bucket.entries) THEN bucket.entries[i + 1]
             ELSE Junk
        ELSE bucket.entries[i]]

\* steps_used + 1 < steps_total, by the used count of the bucket before the
\* removal.
ShrinkWanted(bucket) ==
    ((bucket.used - 1) \div STEPS) + 1 < bucket.total \div STEPS

\* A removal that sets bucket->total though reallocarray has failed.
CompactTotalAnyway(bucket, slot, alloc_ok) ==
    LET used == bucket.used - 1
        total == IF ShrinkWanted(bucket) THEN ((used \div STEPS) + 1) * STEPS
                 ELSE bucket.total
    IN  [entries |-> IF alloc_ok THEN Resize(MoveDown(bucket, slot), total)
                     ELSE MoveDown(bucket, slot),
         used |-> used, total |-> total]

\* A removal that never gives storage back.
CompactNoShrink(bucket, slot, alloc_ok) ==
    [entries |-> MoveDown(bucket, slot), used |-> bucket.used - 1,
     total |-> bucket.total]

\* A removal that shrinks to the steps in use, without the one to spare.
CompactTooFar(bucket, slot, alloc_ok) ==
    LET used == bucket.used - 1
        total == (used \div STEPS) * STEPS
    IN  IF ShrinkWanted(bucket) /\ alloc_ok
        THEN [entries |-> Resize(MoveDown(bucket, slot), total),
              used |-> used, total |-> total]
        ELSE [entries |-> MoveDown(bucket, slot), used |-> used,
              total |-> bucket.total]

\* A removal that forgets bucket->used--.
CompactUsedKept(bucket, slot, alloc_ok) ==
    [entries |-> MoveDown(bucket, slot), used |-> bucket.used,
     total |-> bucket.total]

\* The bucket after the removal of the entry at `slot`, shrunk if it may
\* be and reallocarray succeeds.
Compact(bucket, slot, alloc_ok) ==
    LET used == bucket.used - 1
        steps_used == used \div STEPS
        steps_total == bucket.total \div STEPS
        moved == MoveDown(bucket, slot)
    IN  IF steps_used + 1 < steps_total /\ alloc_ok
        THEN [entries |-> Resize(moved, (steps_used + 1) * STEPS),
              used |-> used, total |-> (steps_used + 1) * STEPS]
        ELSE [entries |-> moved, used |-> used, total |-> bucket.total]

\* hash_del once the hash of the key is known and hash_find_entry has
\* returned `slot`.
DelAt(key, hashval, slot, alloc_ok) ==
    LET pos == BucketOf(hashval)
        bucket == buckets[pos]
        new_buckets == IF slot = 0 THEN buckets
                       ELSE [buckets EXCEPT
                                ![pos] = Compact(bucket, slot, alloc_ok)]
        new_count == IF slot = 0 THEN count
                     ELSE (count + UINT_MAX) % (UINT_MAX + 1)
    IN  /\ buckets' = new_buckets
        /\ count' = new_count
        /\ iter' = IterAfter(new_buckets, new_count)
        /\ walk' = WalkAfter(new_buckets, new_count)
        /\ expect' = IF slot = 0 THEN expect ELSE Told(key, Absent)
        /\ last' = [op |-> "hash_del", key |-> key, value |-> NULL,
                    ret |-> IF slot = 0 THEN "-ENOENT" ELSE "0",
                    out |-> NULL,
                    calls |-> IF slot = 0 THEN << >>
                              ELSE Release(bucket.entries[slot]),
                    oob |-> slot # 0 /\ bucket.used + 1 > bucket.total,
                    alloc |-> IF slot = 0 \/ ~ShrinkWanted(bucket) THEN "none"
                              ELSE Allocated(alloc_ok)]

DelIn(key, hashval, alloc_ok) ==
    DelAt(key, hashval, hash_find_entry(key, hashval), alloc_ok)

hash_del(key, alloc_ok) ==
    /\ alive
    /\ key \in KeysOfTable
    /\ DelIn(key, hash_value_of(key), alloc_ok)
    /\ UNCHANGED <<process_vars, alive, hash_value, key_compare>>

\* ------------------------------------------------------------- iterating
\* A cursor set on the first slot, not before it.
iter_init_at_first ==
    /\ alive
    /\ iter' = [init |-> TRUE, bucket |-> 0, entry |-> 0]
    /\ walk' = [done |-> FALSE, yielded |-> << >>]
    /\ last' = [NoCall EXCEPT !.op = "hash_iter_init"]
    /\ UNCHANGED <<process_vars, table_vars, expect>>

hash_iter_init ==
    /\ alive
    /\ iter' = [init |-> TRUE, bucket |-> 0, entry |-> -1]
    /\ walk' = [done |-> FALSE, yielded |-> << >>]
    /\ last' = [NoCall EXCEPT !.op = "hash_iter_init"]
    /\ UNCHANGED <<process_vars, table_vars, expect>>

\* An advance that takes the next bucket without looking at its used count.
NextBucket(b) == b

\* for (iter->bucket++; iter->bucket < N_BUCKETS; iter->bucket++)
\*     if (buckets[iter->bucket].used > 0) break;
RECURSIVE NextUsedBucket(_)
NextUsedBucket(b) ==
    IF b >= N_BUCKETS THEN b
    ELSE IF buckets[b].used > 0 THEN b
    ELSE NextUsedBucket(b + 1)

\* hash_iter_next(iter, &key, &value).  A cursor whose bucket index has
\* reached N_BUCKETS makes the call read the bucket after the last one:
\* `garbage` is the used count found there.
hash_iter_next(garbage) ==
    /\ alive
    /\ iter.init
    /\ iter.bucket <= N_BUCKETS
    /\ iter.entry < UINT_MAX
    /\ LET inside == iter.bucket < N_BUCKETS
           used == IF inside THEN buckets[iter.bucket].used ELSE garbage
           entry == iter.entry + 1
           advance == entry >= used
           bucket == IF advance THEN NextUsedBucket(iter.bucket + 1)
                     ELSE iter.bucket
           slot == IF advance THEN 0 ELSE entry
           exhausted == advance /\ bucket >= N_BUCKETS
           e == IF bucket < N_BUCKETS /\ slot + 1 <= buckets[bucket].total
                THEN buckets[bucket].entries[slot + 1]
                ELSE Junk
       IN  /\ iter' = [iter EXCEPT !.bucket = bucket, !.entry = slot]
           /\ last' = [op |-> "hash_iter_next",
                       key |-> IF exhausted THEN NULLKEY ELSE e.key,
                       value |-> IF exhausted THEN NULL ELSE e.value,
                       ret |-> IF exhausted THEN "false" ELSE "true",
                       out |-> NULL, calls |-> << >>, alloc |-> "none",
                       oob |-> \/ ~inside
                               \/ /\ ~exhausted
                                  /\ slot >= buckets[bucket].used]
           /\ walk' = IF walk.done THEN walk
                      ELSE IF exhausted THEN [walk EXCEPT !.done = TRUE]
                      ELSE [walk EXCEPT
                               !.yielded = Append(@, <<e.key, e.value>>)]
    /\ UNCHANGED <<process_vars, table_vars, expect>>

\* ---------------------------------------------------------- specification
\* The string hash on its own, on strings of every length up to MaxStrLen.
NextHash == call_hash_str

SpecHash == InitHash /\ [][NextHash]_vars

\* The calls on a table, without the iterator.
Next ==
    \/ hash_int_new
    \/ hash_str_new
    \/ hash_free
    \/ \E key \in AllKeys, value \in Values, alloc_ok \in BOOLEAN :
           hash_add(key, value, alloc_ok)
    \/ \E key \in AllKeys, value \in Values, alloc_ok \in BOOLEAN :
           hash_add_unique(key, value, alloc_ok)
    \/ \E key \in AllKeys : hash_find(key)
    \/ \E key \in AllKeys, alloc_ok \in BOOLEAN : hash_del(key, alloc_ok)
    \/ hash_get_count

Spec == Init /\ [][Next]_vars

\* Walks over the tables that hash_add and hash_del build.
NextIter ==
    \/ hash_int_new
    \/ hash_str_new
    \/ \E key \in AllKeys, value \in Values : hash_add(key, value, TRUE)
    \/ \E key \in AllKeys, alloc_ok \in BOOLEAN : hash_del(key, alloc_ok)
    \/ hash_iter_init
    \/ \E garbage \in {0, UINT_MAX} : hash_iter_next(garbage)

SpecIter == Init /\ [][NextIter]_vars

\* ------------------------------------------------------------- properties
\* The live entries of the table, as <<bucket, slot>>.
LiveSlots ==
    UNION {{<<b, i>> : i \in 1..buckets[b].used} : b \in BucketIds}

Stored(s) == buckets[s[1]].entries[s[2]]

\* The (key reference, value reference) pairs the table holds.
StoredPairs == {<<Stored(s).key, Stored(s).value>> : s \in LiveSlots}

\* The live entries whose key compares equal to k.
SlotsOf(k) == {s \in LiveSlots : key_compare_of(k, Stored(s).key) = 0}

\* k is in the table, by the table's key-compare function.
Present(k) == SlotsOf(k) # {}

\* The entry of a key that is in the table.
EntryOf(k) == Stored(CHOOSE s \in SlotsOf(k) : TRUE)

\* The keys in the table, those that compare equal taken as one.
KeyClasses ==
    {{j \in KeysOfTable : key_compare_of(k, j) = 0} :
        k \in {k \in KeysOfTable : Present(k)}}

RECURSIVE SumUsed(_)
SumUsed(b) == IF b >= N_BUCKETS THEN 0 ELSE buckets[b].used + SumUsed(b + 1)

\* What hash_find must return for k by what the callers were told.
Expected(k) == IF expect[k] = Absent THEN NULL ELSE expect[k]

\* C1: whatever calls were made on a table, successful or failing, its
\* count is the sum of `used` over the buckets and the number of distinct
\* keys in the table under its key-compare function, and hash_get_count
\* returns it.  (The keys offered are fewer than UINT_MAX, as the entries
\* of a table in memory are: the counter does not wrap.)
C1_CountIsDistinctKeys ==
    alive =>
        /\ count = SumUsed(0)
        /\ count = Cardinality(LiveSlots)
        /\ count = Cardinality(KeyClasses)
        /\ last.op = "hash_get_count" => last.out = Cardinality(KeyClasses)

\* C1 witness: hash_get_count has returned 3 on a table with a bucket that
\* a removal, its shrink failing, left with one entry in a grown storage.
C1_Witness ==
    /\ alive
    /\ last.op = "hash_get_count"
    /\ last.out = 3
    /\ \E b \in BucketIds : buckets[b].used = 1 /\ buckets[b].total > STEPS

\* C2: hash_find(k) returns the value of the last successful add of k, and
\* NULL if k was deleted since or never added; and hash_find returns just
\* that, changes nothing in the table and invokes no release callback.
C2_FindReturnsLastAdded ==
    /\ [](alive => \A k \in KeysOfTable : FindResult(k) = Expected(k))
    /\ [][last'.op = "hash_find" =>
            /\ last'.out = Expected(last'.key)
            /\ last'.calls = << >>
            /\ UNCHANGED table_vars]_vars

\* C2 witness: hash_find has found a non-NULL value in the second slot of
\* a bucket.
C2_Witness ==
    /\ last.op = "hash_find"
    /\ last.out # NULL
    /\ \E b \in BucketIds :
          /\ buckets[b].used >= 2
          /\ key_compare_of(last.key, buckets[b].entries[2].key) = 0

\* C3: hash_add_unique(k, v) on a key k that is in the table returns
\* -EEXIST, invokes no release callback and leaves count and every stored
\* pair as they were.  It is stated for the calls in which the growth of
\* the bucket, which the code tries before it looks for the key, does not
\* fail.
C3_AddUniqueOnPresent ==
    [][(/\ last'.op = "hash_add_unique"
        /\ Present(last'.key)
        /\ last'.ret \notin {"-ENOMEM", "-EOVERFLOW"}) =>
          /\ last'.ret = "-EEXIST"
          /\ last'.calls = << >>
          /\ count' = count
          /\ StoredPairs' = StoredPairs]_vars

\* What hash_add on a key in the table does to the table: the entry of the
\* key now holds the references passed, the others are as they were.
Overwritten(k, v) ==
    /\ StoredPairs' =
          (StoredPairs \ {<<EntryOf(k).key, EntryOf(k).value>>})
              \cup {<<k, v>>}
    /\ count' = count

\* C4 as stated: hash_add(k, v) on a key k that is in the table overwrites
\* the stored references with (k, v), invokes free_value and then free_key,
\* once each, on the displaced value and key, and leaves count unchanged.
C4_AddOnPresent ==
    [][(last'.op = "hash_add" /\ Present(last'.key)) =>
          /\ Overwritten(last'.key, last'.value)
          /\ last'.calls = <<FreeValue(EntryOf(last'.key).value),
                             FreeKey(EntryOf(last'.key).key)>>]_vars

\* C4 amended: so it is when hash_add returns 0; it may instead fail with
\* -ENOMEM or -EOVERFLOW, for the bucket is grown before it is searched.
C4_AddOnPresentSucceeding ==
    [][(last'.op = "hash_add" /\ Present(last'.key)) =>
          \/ /\ last'.ret = "0"
             /\ Overwritten(last'.key, last'.value)
             /\ last'.calls = <<FreeValue(EntryOf(last'.key).value),
                                FreeKey(EntryOf(last'.key).key)>>
          \/ /\ last'.ret \in {"-ENOMEM", "-EOVERFLOW"}
             /\ buckets[BucketOf(hash_value_of(last'.key))].used + 1
                   >= buckets[BucketOf(hash_value_of(last'.key))].total
             /\ last'.calls = << >>
             /\ UNCHANGED <<count, buckets>>]_vars

\* C4 witness: hash_add has replaced the string key at address 1 and its
\* value 1 by an equal string at address 2 with a NULL value.
C4_Witness ==
    /\ last.op = "hash_add"
    /\ last.ret = "0"
    /\ last.key = <<0, 2>>
    /\ last.value = NULL
    /\ last.calls = <<FreeValue(1), FreeKey(<<0, 1>>)>>
    /\ <<(<<0, 2>>), NULL>> \in StoredPairs

\* C5: a successful hash_add(k, v) on a key k that is not in the table
\* makes the entry and invokes neither release callback.
C5_AddOnAbsent ==
    [][(last'.op = "hash_add" /\ last'.ret = "0" /\ ~Present(last'.key)) =>
          /\ StoredPairs' = StoredPairs \cup {<<last'.key, last'.value>>}
          /\ last'.calls = << >>]_vars

\* The callbacks that release the references of a set of stored pairs.
ReleasesOf(pairs) ==
    {FreeValue(p[2]) : p \in pairs} \cup {FreeKey(p[1]) : p \in pairs}

\* C6: a call invokes the release callbacks on the references it drops
\* from the table, value before key, and on nothing else: each callback it
\* invokes is given a reference of a pair that was stored and is no longer,
\* each pair that is no longer stored is released, and the calls that drop
\* nothing invoke no callback.
C6_ReleasedWhenDropped ==
    [][/\ \A i \in 1..Len(last'.calls) :
              last'.calls[i] \in ReleasesOf(StoredPairs \ StoredPairs')
       /\ \A p \in StoredPairs \ StoredPairs' :
              \E i \in 1..Len(last'.calls) :
                  /\ i + 1 <= Len(last'.calls)
                  /\ last'.calls[i] = FreeValue(p[2])
                  /\ last'.calls[i + 1] = FreeKey(p[1])
       /\ Len(last'.calls) = 2 * Cardinality(StoredPairs \ StoredPairs')
       /\ last'.op \in {"hash_find", "hash_get_count", "hash_add_unique"}
              => last'.calls = << >>
       /\ (last'.op = "hash_del" /\ last'.ret # "0")
              => last'.calls = << >>]_vars

\* C7: hash_del(k) on a key k that is not in the table returns -ENOENT,
\* invokes no release callback and leaves count and every bucket (used,
\* total and entries) as they were.
C7_DelOnAbsent ==
    [][(last'.op = "hash_del" /\ ~Present(last'.key)) =>
          /\ last'.ret = "-ENOENT"
          /\ last'.calls = << >>
          /\ UNCHANGED <<count, buckets>>]_vars

\* C7 witness: hash_del has not found a key whose hash is the cached hash
\* of an entry of the table.
C7_Witness ==
    /\ last.op = "hash_del"
    /\ last.ret = "-ENOENT"
    /\ \E s \in LiveSlots : Stored(s).hashval = hash_value_of(last.key)

\* C8: in a walk of a table that is not changed meanwhile, hash_iter_next
\* returns true while it has yielded fewer pairs than hash_get_count tells,
\* each time with a pair of the table that it has not yielded before, and
\* false at the call after; the table holds as many pairs as its count, so
\* every pair is yielded once, and on an empty table the first call
\* returns false.
C8_WalkYieldsEachPairOnce ==
    [][(last'.op = "hash_iter_next" /\ ~walk.done) =>
          /\ count = Cardinality(StoredPairs)
          /\ IF Len(walk.yielded) < count
             THEN /\ last'.ret = "true"
                  /\ <<last'.key, last'.value>> \in StoredPairs
                  /\ \A i \in 1..Len(walk.yielded) :
                         walk.yielded[i] # <<last'.key, last'.value>>
                  /\ walk'.yielded =
                         Append(walk.yielded, <<last'.key, last'.value>>)
                  /\ ~walk'.done
             ELSE /\ last'.ret = "false"
                  /\ walk'.done
                  /\ {walk.yielded[i] : i \in 1..Len(walk.yielded)}
                         = StoredPairs
          /\ UNCHANGED table_vars]_vars

\* C8 witness: a walk over three pairs in two buckets has ended.
C8_Witness ==
    /\ walk.done
    /\ last.op = "hash_iter_next"
    /\ last.ret = "false"
    /\ Len(walk.yielded) = 3
    /\ \A b \in BucketIds : buckets[b].used > 0

\* The bucket hash_add_entry works on for a key.
BucketFor(k) == buckets[BucketOf(hash_value_of(k))]

\* C9: hash_add and hash_add_unique return -EOVERFLOW exactly when the
\* bucket of the key must grow and total + STEPS does not fit the counter,
\* -ENOMEM only when it must grow and the sum fits; in both cases count
\* and every bucket are as before and no callback is invoked; and no call
\* ever makes a capacity smaller or larger than the counter holds.
C9_GrowthFailureChangesNothing ==
    [][last'.op \in {"hash_add", "hash_add_unique"} =>
          LET bucket == BucketFor(last'.key)
              grow == bucket.used + 1 >= bucket.total
              fits == bucket.total + STEPS <= UINT_MAX
          IN  /\ last'.ret = "-EOVERFLOW" <=> (grow /\ ~fits)
              /\ last'.ret = "-ENOMEM" => (grow /\ fits)
              /\ last'.ret \in {"-EOVERFLOW", "-ENOMEM"} =>
                     /\ UNCHANGED <<count, buckets>>
                     /\ last'.calls = << >>
              /\ \A b \in BucketIds :
                     /\ buckets'[b].total >= buckets[b].total
                     /\ buckets'[b].total <= UINT_MAX
                     /\ Len(buckets'[b].entries) = buckets'[b].total]_vars

\* C9 witness: a call has failed with -EOVERFLOW on a table that holds
\* entries.
C9_Witness ==
    /\ last.op \in {"hash_add", "hash_add_unique"}
    /\ last.ret = "-EOVERFLOW"
    /\ count > 0

\* C10: hash_del(k) on a key k that is in the table returns 0, invokes
\* free_value and then free_key on the references of the entry of k and on
\* nothing else, takes that entry and no other out of the table, and makes
\* the used count of its bucket and the count of the table one less.
C10_DelOnPresent ==
    [][(last'.op = "hash_del" /\ Present(last'.key)) =>
          LET old == EntryOf(last'.key)
              pos == BucketOf(old.hashval)
          IN  /\ last'.ret = "0"
              /\ last'.calls = <<FreeValue(old.value), FreeKey(old.key)>>
              /\ StoredPairs' = StoredPairs \ {<<old.key, old.value>>}
              /\ Cardinality(StoredPairs') = Cardinality(StoredPairs) - 1
              /\ buckets'[pos].used = buckets[pos].used - 1
              /\ \A b \in BucketIds \ {pos} :
                     buckets'[b].used = buckets[b].used
              /\ count' = count - 1]_vars

\* C10 witness: hash_del has removed an entry and left two, one of them in
\* the slot of the removed one.
C10_Witness ==
    /\ last.op = "hash_del"
    /\ last.ret = "0"
    /\ count = 2
    /\ \E b \in BucketIds : buckets[b].used = 2

\* C11: in every state of a table, whatever calls failed, every bucket has
\* total >= used, and its total, which is the size of its storage, is 0 or
\* a positive multiple of STEPS.
C11_TotalIsStepsMultiple ==
    alive =>
        \A b \in BucketIds :
            /\ buckets[b].total >= buckets[b].used
            /\ buckets[b].total % STEPS = 0
            /\ buckets[b].total >= 0
            /\ Len(buckets[b].entries) = buckets[b].total

\* C11 witness: after a failed call, a bucket has grown twice and another
\* once.
C11_Witness ==
    /\ alive
    /\ last.ret \in {"-ENOMEM", "-EOVERFLOW"}
    /\ \E b, c \in BucketIds :
          buckets[b].total = 2 * STEPS /\ buckets[c].total = STEPS

\* C12: in every state of a table, the cached hash of every live entry is
\* the hash of the key it stores, the cached hash masked with N_BUCKETS - 1
\* is the index of its bucket, and no two live entries hold keys that
\* compare equal.
C12_CachedHashAndUniqueKeys ==
    alive =>
        /\ \A s \in LiveSlots :
              /\ Stored(s).hashval = hash_value_of(Stored(s).key)
              /\ BucketOf(Stored(s).hashval) = s[1]
        /\ \A s, t \in LiveSlots :
              key_compare_of(Stored(s).key, Stored(t).key) = 0 => s = t

\* C12 witness: hash_add has replaced the stored key of an entry by an
\* equal string at another address, in a bucket of two entries.
C12_Witness ==
    /\ last.op = "hash_add"
    /\ last.ret = "0"
    /\ Len(last.calls) = 2
    /\ last.calls[2].arg \in StrKeys \ {last.key}
    /\ \E b \in BucketIds : buckets[b].used = 2

\* The calls get_random_unsigned() made on a source: the system call
\* `getrandom` or a device path.
CallsOn(source) ==
    {i \in 1..Len(last.calls) :
        \/ last.calls[i].sys = source
        \/ last.calls[i].path = source}

\* C16: the sources of the seed are tried in order, each when the one
\* before has failed, so that the default constant is used only if the
\* kernel call, the best-effort device and the blocking device were all
\* tried and all failed (to open or to deliver a full value); and the seed
\* stored is odd.
C16_DefaultOnlyAfterAllSources ==
    /\ odd_constant[2] % 2 = 1
    /\ (last.op = "initialize_odd_constant" /\ last.ret = "default") =>
          \A source \in {"getrandom", "/dev/urandom", "/dev/random"} :
              /\ CallsOn(source) # {}
              /\ \E i \in CallsOn(source) : ~last.calls[i].ok

\* The live entries of a bucket, in slot order, with their cached hashes.
LiveSeq(bucket) == SubSeq(bucket.entries, 1, bucket.used)

\* A sequence without its element at place i.
Without(seq, i) ==
    [j \in 1..(Len(seq) - 1) |-> IF j < i THEN seq[j] ELSE seq[j + 1]]

\* C13: a hash_del that returns 0 leaves in the bucket of the removed entry
\* the entries that were there, in the order they had and with the hashes
\* cached in them, those after the removed one each one slot earlier; used
\* count, total and storage of every other bucket are what they were.
C13_DelCompactsTargetBucketOnly ==
    [][(last'.op = "hash_del" /\ last'.ret = "0") =>
          LET s == CHOOSE t \in SlotsOf(last'.key) : TRUE
              pos == s[1]
              slot == s[2]
          IN  /\ pos = BucketOf(hash_value_of(last'.key))
              /\ LiveSeq(buckets'[pos]) = Without(LiveSeq(buckets[pos]), slot)
              /\ \A i \in (slot + 1)..buckets[pos].used :
                     buckets'[pos].entries[i - 1] = buckets[pos].entries[i]
              /\ \A b \in BucketIds \ {pos} : buckets'[b] = buckets[b]]_vars

\* C13 witness: hash_del has removed an entry from a bucket that keeps two,
\* while the other bucket holds an entry.
C13_Witness ==
    /\ last.op = "hash_del"
    /\ last.ret = "0"
    /\ BucketFor(last.key).used = 2
    /\ \E b \in BucketIds :
           b # BucketOf(hash_value_of(last.key)) /\ buckets[b].used > 0

\* C14: a hash_del whose reallocarray fails returns 0 with the entry taken
\* out and released, count and the used count of the bucket one less, the
\* total and the storage size of the bucket as before, and every entry that
\* remains still found by hash_find with the value it had.
C14_FailedShrinkIsSilent ==
    [][(last'.op = "hash_del" /\ last'.alloc = "failed") =>
          LET old == EntryOf(last'.key)
              pos == BucketOf(old.hashval)
          IN  /\ Present(last'.key)
              /\ last'.ret = "0"
              /\ last'.calls = Release(old)
              /\ count' = count - 1
              /\ buckets'[pos].used = buckets[pos].used - 1
              /\ buckets'[pos].total = buckets[pos].total
              /\ Len(buckets'[pos].entries) = Len(buckets[pos].entries)
              /\ StoredPairs' = StoredPairs \ {<<old.key, old.value>>}
              /\ \A k \in KeysOfTable :
                     IF key_compare_of(k, old.key) = 0
                     THEN ~Present(k)'
                     ELSE /\ Present(k)' = Present(k)
                          /\ FindResult(k)' = FindResult(k)]_vars

\* C14 witness: a hash_del whose reallocarray failed has left an entry in a
\* bucket that keeps two steps of storage.
C14_Witness ==
    /\ last.op = "hash_del"
    /\ last.alloc = "failed"
    /\ BucketFor(last.key).used = 1
    /\ BucketFor(last.key).total = 2 * STEPS

\* The multiple of STEPS next above a used count: room for the entries and
\* for one more, as hash_add_entry keeps it.
RoundedUp(used) == ((used \div STEPS) + 1) * STEPS

\* C15: a hash_del that returns 0 calls reallocarray exactly when the used
\* count it leaves, rounded up to the next multiple of STEPS, is at least
\* STEPS below the total of the bucket; when that call succeeds the new
\* total is the rounded size, and in every other case the total stays.
C15_ShrinkExactlyWhenAStepIsSpare ==
    [][(last'.op = "hash_del" /\ last'.ret = "0") =>
          LET pos == BucketOf(hash_value_of(last'.key))
              rounded == RoundedUp(buckets'[pos].used)
          IN  /\ last'.alloc # "none" <=> rounded + STEPS <= buckets[pos].total
              /\ last'.alloc = "ok" => buckets'[pos].total = rounded
              /\ last'.alloc # "ok" =>
                     buckets'[pos].total = buckets[pos].total]_vars

\* C15 witness: hash_del has shrunk the storage of a bucket that still holds
\* an entry to one step.
C15_Witness ==
    /\ last.op = "hash_del"
    /\ last.alloc = "ok"
    /\ BucketFor(last.key).used = 1
    /\ BucketFor(last.key).total = STEPS

\* C19: in every state of a table a bucket without storage holds nothing
\* and a bucket with storage has used < total, so neither the slot that
\* hash_add_entry fills nor the slots that the memmove of hash_del reads lie
\* outside the storage of the bucket.
C19_UsedBelowTotal ==
    /\ alive =>
           \A b \in BucketIds :
               /\ buckets[b].total = 0 => buckets[b].used = 0
               /\ buckets[b].total > 0 => buckets[b].used < buckets[b].total
               /\ Len(buckets[b].entries) = buckets[b].total
    /\ last.op \in {"hash_add", "hash_add_unique", "hash_del"} => ~last.oob

\* C19 witness: hash_add has filled a bucket of two steps up to its last
\* slot but one.
C19_Witness ==
    /\ last.op = "hash_add"
    /\ last.ret = "0"
    /\ \E b \in BucketIds :
           buckets[b].total = 2 * STEPS /\ buckets[b].used = 2 * STEPS - 1

\* C17: every hash_iter_next reads only buckets 0..N_BUCKETS-1 and only
\* slots below the used count of their bucket, and every hash_iter_next on
\* a cursor that has returned false, hash_iter_init not called since,
\* returns false.
C17_ExhaustedCursorStaysExhausted ==
    [][last'.op = "hash_iter_next" =>
          /\ ~last'.oob
          /\ walk.done => last'.ret = "false"]_vars

\* The pairs of buckets b, b + 1, ..., each bucket's in slot order.
RECURSIVE WalkOrder(_)
WalkOrder(b) ==
    IF b >= N_BUCKETS THEN << >>
    ELSE [i \in 1..buckets[b].used |->
             <<buckets[b].entries[i].key, buckets[b].entries[i].value>>]
         \o WalkOrder(b + 1)

\* C18: in a walk of a table that is not changed meanwhile, the n-th
\* hash_iter_next returns the n-th pair of the table in bucket-then-slot
\* order, and false when that order is used up; hash_iter_init, wherever
\* the walk stands, leaves the table alone and puts the cursor before the
\* first pair, so that the walk after it yields the whole order again.
C18_WalkInBucketThenSlotOrder ==
    [][/\ (last'.op = "hash_iter_next" /\ ~walk.done) =>
              LET n == Len(walk.yielded)
                  order == WalkOrder(0)
              IN  /\ walk.yielded = SubSeq(order, 1, n)
                  /\ IF n < Len(order)
                     THEN /\ last'.ret = "true"
                          /\ <<last'.key, last'.value>> = order[n + 1]
                          /\ walk'.yielded = SubSeq(order, 1, n + 1)
                          /\ ~walk'.done
                     ELSE /\ last'.ret = "false"
                          /\ walk'.done
                          /\ walk'.yielded = order
                  /\ UNCHANGED table_vars
       /\ last'.op = "hash_iter_init" =>
              /\ walk'.yielded = << >>
              /\ ~walk'.done
              /\ iter'.bucket = 0
              /\ iter'.entry = -1
              /\ UNCHANGED table_vars]_vars

\* C18 witness: a walk has ended after three pairs, the first bucket's
\* before the last bucket's.
C18_Witness ==
    /\ walk.done
    /\ last.op = "hash_iter_next"
    /\ last.ret = "false"
    /\ walk.yielded = WalkOrder(0)
    /\ Len(walk.yielded) = 3
    /\ buckets[0].used > 0
    /\ buckets[N_BUCKETS - 1].used > 0

\* The characters of the string in `text`, without the terminating NUL.
Characters == SubSeq(text, 1, strlen[text])

\* C20 as stated: the string hash of a string is the fold of its
\* characters, in order and each once, from the seed on; the terminating
\* NUL is not folded in.
C20_HashFoldsCharactersOnly ==
    last.op = "hash_str" => last.out = crc32bytes[odd_constant, Characters]

\* C20 amended: the string hash of a string is the fold of its characters,
\* in order and each once, from the seed on, and after them of the
\* terminating NUL when the length of the string is even; whatever byte
\* follows the terminator has no part in it.
C20_HashFoldsCharactersAndNulWhenEven ==
    last.op = "hash_str" =>
        last.out = crc32bytes[odd_constant,
                              IF Len(Characters) % 2 = 0
                              THEN Append(Characters, 0)
                              ELSE Characters]

\* C20 witness: a string of nine characters, with a byte that is not NUL
\* after its terminator, has been hashed: by one step of eight bytes and
\* one of a single byte.
C20_Witness ==
    /\ last.op = "hash_str"
    /\ Len(Characters) = 9
    /\ text[11] = 255

====
